---- MODULE Spec2Model ----
(***************************************************************************)
(* Model of the ad-creative generation pipeline (generateAdCreatives,     *)
(* generateSingleCreative, createPrompt, getPlatformDimensions,           *)
(* generateMockCreatives) of the Adsightful front end.                    *)
(*                                                                         *)
(* The repository holds two variants of the image-generation service      *)
(* (src/unnamed/part_001 lines 1-274 and lines 275-590).  They differ in  *)
(* createPrompt only; the variable `variant` says which one runs.         *)
(*                                                                         *)
(* Text is modelled as a sequence of tokens: a literal chunk of a         *)
(* template is one token, an interpolated value contributes its own       *)
(* tokens.  "s contains t" is "t is a contiguous run of tokens of s".     *)
(* An optional JavaScript value is None (undefined) or Some(v).           *)
(***************************************************************************)
EXTENDS Integers, Sequences, FiniteSets, TLC

VARIABLES
    variant,          \* 1: part_001 lines 1-274, 2: part_001 lines 275-590
    OPENAI_API_KEY,   \* TRUE iff process.env.REACT_APP_OPENAI_API_KEY is set
    strategy,         \* argument of generateAdCreatives
    user,             \* argument of generateAdCreatives
    platforms,        \* argument of generateAdCreatives
    pc,               \* position of generateAdCreatives
    next,             \* index of the next platform platforms.map will visit
    promises,         \* the promises returned by generateSingleCreative
    posts,            \* per platform index, the number of axios.post calls made
    arrived,          \* the requests whose responses came, in the order they came
    lastResponse,     \* kind of the response handled last
    result,           \* the list generateAdCreatives resolved with
    promptCall,       \* a direct call of createPrompt: its arguments and outcome
    firstResult,      \* the list an earlier call with the same arguments returned
    exchanges,        \* CORS server: the requests handled, each with its response
    connectionString, \* TRUE iff process.env.REACT_APP_NEON_DATABASE_URL is set
    reliable,         \* TRUE iff the database never fails a statement it could run
    tableExists,      \* TRUE iff the database holds the table users
    dbInit,           \* position of initializeDatabase
    usersTable,       \* the rows of the table users
    calls,            \* per caller, its call of saveUser or getUserByEmail
    callsMade,        \* number of calls of saveUser and getUserByEmail so far
    lastSaved,        \* per email, the profile of the last saveUser that returned a record
    loading,          \* useOpenAI: the state `loading`
    error,            \* useOpenAI: the state `error`
    ops,              \* useOpenAI: per operation, its latest call
    opsStarted        \* useOpenAI: number of operations started so far

\* the state of the local CORS server
serverVars == <<exchanges>>

\* the state of DatabaseService and of the database
dbVars == <<connectionString, reliable, tableExists, dbInit, usersTable,
            calls, callsMade, lastSaved>>

\* the state of a component using the hook useOpenAI
hookVars == <<loading, error, ops, opsStarted>>

\* the state of the other components, which a call of generateAdCreatives
\* leaves alone
otherVars == <<serverVars, dbVars, hookVars>>

restVars == <<firstResult, otherVars>>

vars == <<variant, OPENAI_API_KEY, strategy, user, platforms, pc, next,
          promises, posts, arrived, lastResponse, result, promptCall,
          restVars>>

-----------------------------------------------------------------------------
(* Bounds *)

MaxPlatforms == 3
MaxRequests == 2
MaxCalls == 3
MaxOps == 4

-----------------------------------------------------------------------------
(* JavaScript values *)

None == <<>>
Some(v) == <<v>>

\* `${x}` of an optional text: undefined prints as "undefined"
Show(opt) == IF opt = None THEN <<"undefined">> ELSE opt[1]

\* a || b on texts: the empty text and undefined are falsy
OrElse(opt, dflt) == IF opt = None \/ opt = Some(<<>>) THEN dflt ELSE opt[1]

\* list[0] of a list of texts: undefined when the list is empty
First(list) == IF Len(list) = 0 THEN None ELSE Some(list[1])

Contains(s, t) ==
    \E i \in 0..(Len(s) - Len(t)) : SubSeq(s, i + 1, i + Len(t)) = t

\* a completion of a synchronous call: a value, or a thrown exception
Return(v) == [threw |-> FALSE, value |-> v]
Throw == [threw |-> TRUE, value |-> <<>>]

-----------------------------------------------------------------------------
(* Inputs *)

KnownPlatforms == {"Facebook", "Instagram", "LinkedIn", "Google"}
OtherPlatforms == {"TikTok"}
Platforms == KnownPlatforms \cup OtherPlatforms

\* platform lists passed to generateAdCreatives: a known and an unknown name
RequestPlatforms == {"Facebook", "TikTok"}

PlatformLists ==
    UNION {[1..n -> RequestPlatforms] : n \in 0..MaxPlatforms}

\* user.companyName: empty, one word, words with characters that need escaping
CompanyNames == {<<>>, <<"Acme">>, <<"Acme", " ", "&", " ", "Co">>}

Users == {[companyName |-> c] : c \in CompanyNames}

FullPersona ==
    [name |-> Some(<<"Jane">>), role |-> Some(<<"Engineer">>),
     ageRange |-> Some(<<"30-40">>),
     painPoints |-> Some(<< <<"slow reports">> >>),
     motivations |-> Some(<< <<"growth">> >>),
     interests |-> Some(<< <<"analytics">> >>),
     psychographics |-> Some(<< <<"curious">> >>)]

\* a persona whose list fields are missing
PartialPersona ==
    [name |-> Some(<<"Jane">>), role |-> None, ageRange |-> None,
     painPoints |-> None, motivations |-> None,
     interests |-> None, psychographics |-> None]

\* a persona whose list fields are empty lists
EmptyListsPersona ==
    [name |-> Some(<<"Jane">>), role |-> Some(<<"Engineer">>),
     ageRange |-> Some(<<"30-40">>),
     painPoints |-> Some(<<>>), motivations |-> Some(<<>>),
     interests |-> Some(<<>>), psychographics |-> Some(<<>>)]

Brief(personas, summary) == [personas |-> personas, productSummary |-> summary]

NoBriefStrategy == [audienceBrief |-> None]
NoPersonasStrategy == [audienceBrief |-> Some(Brief(None, None))]
EmptyPersonasStrategy ==
    [audienceBrief |-> Some(Brief(Some(<<>>), Some(<<"A reporting tool">>)))]
PartialStrategy ==
    [audienceBrief |-> Some(Brief(Some(<<PartialPersona>>), None))]
FullStrategy ==
    [audienceBrief |->
        Some(Brief(Some(<<FullPersona>>), Some(<<"A reporting tool">>)))]

Strategies ==
    {NoBriefStrategy, NoPersonasStrategy, EmptyPersonasStrategy,
     PartialStrategy, FullStrategy}

\* the ways one axios.post can end
Failures == {"httpError", "noResponse", "setupError", "emptyData"}
Responses == {"ok"} \cup Failures

\* response.data.data[0].url of the successful response to request i
UpstreamUrl(i) == <<"https://images.upstream.example/", ToString(i)>>

-----------------------------------------------------------------------------
(* createPrompt, first variant (part_001 lines 144-189) *)

\* persona.<list>[0]: reading an index of undefined throws
ListHead(persona, field) == First(persona[1][field][1])

\* the reads of createPrompt that throw a TypeError
createPromptThrows1(strategy_, persona) ==
    \/ persona = None
    \/ persona[1].painPoints = None
    \/ persona[1].motivations = None
    \/ persona[1].interests = None
    \/ persona[1].psychographics = None
    \/ strategy_.audienceBrief = None

basePrompt1(companyName, platform, persona) ==
    LET painPoints == Show(ListHead(persona, "painPoints"))
        motivation == Show(ListHead(persona, "motivations"))
        interest == Show(ListHead(persona, "interests"))
        psychographic == Show(ListHead(persona, "psychographics"))
        role == Show(persona[1].role)
    IN CASE platform = "Facebook" ->
              <<"Create a ", "Facebook", " ad for ">> \o companyName
              \o <<" that addresses the pain point of \"">> \o painPoints
              \o <<"\". The ad should appeal to ">> \o psychographic
              \o <<" personalities. Make it visually engaging for a feed placement with the company name visible. Dimensions 1200x628.">>
         [] platform = "Instagram" ->
              <<"Design an ", "Instagram", " post ad for ">> \o companyName
              \o <<" focusing on the interest in \"">> \o interest
              \o <<"\". Use vibrant colors and lifestyle imagery that would appeal to ">>
              \o role
              \o <<"s. Include subtle branding. Square format 1080x1080.">>
         [] platform = "LinkedIn" ->
              <<"Create a professional ", "LinkedIn", " ad for ">> \o companyName
              \o <<" that speaks to ">> \o role
              \o <<"s. Address the professional motivation of \"">> \o motivation
              \o <<"\". Use a clean, corporate style with appropriate branding. Dimensions 1200x627.">>
         [] platform = "Google" ->
              <<"Design a ", "Google", " Display ad for ">> \o companyName
              \o <<" that clearly communicates a solution to \"">> \o painPoints
              \o <<"\". Make it clean and action-oriented with a clear value proposition. Dimensions 300x250.">>
         [] OTHER ->
              <<"Create a digital ad for ">> \o companyName
              \o <<" targeted at ">> \o role
              \o <<"s who are interested in ">> \o interest
              \o <<" and motivated by ">> \o motivation
              \o <<". Include clear branding and a professional look.">>

createPrompt1(strategy_, user_, platform, persona) ==
    IF createPromptThrows1(strategy_, persona) THEN Throw
    ELSE
      LET companyName == user_.companyName
          painPoints == Show(ListHead(persona, "painPoints"))
          motivation == Show(ListHead(persona, "motivations"))
      IN Return(
           basePrompt1(companyName, platform, persona)
           \o <<" The ad should be targeted at ">> \o Show(persona[1].name)
           \o <<", who is a ">> \o Show(persona[1].role)
           \o <<" in the ">> \o Show(persona[1].ageRange)
           \o <<" age range. Product/Service description: ">>
           \o Show(strategy_.audienceBrief[1].productSummary)
           \o <<" The ad should focus on the target audience's key pain point: \"">>
           \o painPoints
           \o <<"\", and appeal to their motivation: \"">> \o motivation
           \o <<"\". Include a clear, professional design with the company name \"">>
           \o companyName
           \o <<"\" visible. Make the ad highly professional, modern, and suitable for digital advertising.">>)

-----------------------------------------------------------------------------
(* createPrompt, second variant (part_001 lines 418-505) *)

\* persona.<list>?.[0]: undefined when the list is missing or empty
ListHeadOpt(persona, field) ==
    IF persona[1][field] = None THEN None ELSE First(persona[1][field][1])

adSize2(platform) ==
    CASE platform = "Facebook" -> <<"1200x628 ", "Facebook", " landscape">>
      [] platform = "Instagram" -> <<"1080x1080 ", "Instagram", " square">>
      [] platform = "LinkedIn" -> <<"1200x627 ", "LinkedIn", " landscape">>
      [] platform = "Google" -> <<"300x250 ", "Google", " Display">>
      [] OTHER -> <<"1200x628 landscape banner">>

designStyle2(platform) ==
    CASE platform = "Facebook" -> <<"Clean, engaging, conversation-starting">>
      [] platform = "Instagram" -> <<"Vibrant, visual-first, lifestyle-oriented">>
      [] platform = "LinkedIn" -> <<"Professional, corporate, authoritative">>
      [] platform = "Google" -> <<"Clean, action-oriented, solution-focused">>
      [] OTHER -> <<"Professional, clean, modern">>

ctaText2(platform) ==
    CASE platform = "Facebook" -> <<"Learn More">>
      [] platform = "Instagram" -> <<"Shop Now">>
      [] platform = "LinkedIn" -> <<"Discover More">>
      [] platform = "Google" -> <<"Get Started">>
      [] OTHER -> <<"Learn More">>

colorPalette2(platform) ==
    CASE platform = "Facebook" ->
           <<"#1877F2 (", "Facebook", " blue), #FFFFFF (white), #4267B2 (dark blue)">>
      [] platform = "Instagram" ->
           <<"#E1306C (", "Instagram", " pink), #F77737 (orange), #FFFFFF (white)">>
      [] platform = "LinkedIn" ->
           <<"#0077B5 (", "LinkedIn", " blue), #FFFFFF (white), #313335 (dark gray)">>
      [] platform = "Google" ->
           <<"#4285F4 (", "Google", " blue), #FFFFFF (white), #34A853 (green)">>
      [] OTHER -> <<"#007BFF (blue), #FFFFFF (white), #212529 (dark)">>

createPrompt2(strategy_, user_, platform, persona) ==
    IF persona = None THEN Throw
    ELSE
      LET companyName == OrElse(Some(user_.companyName), <<"Brand">>)
          painPoints == OrElse(ListHeadOpt(persona, "painPoints"), <<"efficiency">>)
          motivation == OrElse(ListHeadOpt(persona, "motivations"), <<"success">>)
          interest == OrElse(ListHeadOpt(persona, "interests"), <<"technology">>)
          psychographic ==
              OrElse(ListHeadOpt(persona, "psychographics"), <<"analytical">>)
          productSummary ==
              IF strategy_.audienceBrief = None
              THEN companyName \o <<"'s solution">>
              ELSE OrElse(strategy_.audienceBrief[1].productSummary,
                          companyName \o <<"'s solution">>)
      IN Return(
           <<"System Prompt: You are a senior brand designer creating high-performing digital ad banners. Audience: ">>
           \o Show(persona[1].name) \o <<", a ">> \o Show(persona[1].role)
           \o <<" in the ">> \o Show(persona[1].ageRange)
           \o <<" age range who is concerned about \"">> \o painPoints
           \o <<"\", motivated by \"">> \o motivation
           \o <<"\", and interested in \"">> \o interest
           \o <<"\". They have a ">> \o psychographic
           \o <<" personality. Brand: ">> \o companyName
           \o <<" Product: ">> \o productSummary
           \o <<" Value Proposition: Solution for \"">> \o painPoints
           \o <<"\" that delivers \"">> \o motivation
           \o <<"\" Tone & Style: ">> \o designStyle2(platform)
           \o <<" Primary CTA: ">> \o ctaText2(platform)
           \o <<" Ad Format: ">> \o adSize2(platform)
           \o <<" Design Guidelines: [...] Color Palette: ">> \o colorPalette2(platform)
           \o <<" [...] Output Goal: [...] Include the company name \"">>
           \o companyName
           \o <<"\" visibly in the design, and make sure the ad follows standard industry practices for ">>
           \o <<platform>> \o <<" advertising.">>)

\* the template function createPrompt of the variant that runs
createPrompt(v, strategy_, user_, platform, persona) ==
    IF v = 1 THEN createPrompt1(strategy_, user_, platform, persona)
    ELSE createPrompt2(strategy_, user_, platform, persona)

-----------------------------------------------------------------------------
(* getPlatformDimensions (part_001 lines 194-207, 510-523) *)

getPlatformDimensions(platform) ==
    CASE platform = "Facebook" -> [apiSize |-> "1024x1024", displaySize |-> "1200x628"]
      [] platform = "Instagram" -> [apiSize |-> "1024x1024", displaySize |-> "1080x1080"]
      [] platform = "LinkedIn" -> [apiSize |-> "1024x1024", displaySize |-> "1200x627"]
      [] platform = "Google" -> [apiSize |-> "1024x1024", displaySize |-> "300x250"]
      [] OTHER -> [apiSize |-> "1024x1024", displaySize |-> "1200x628"]

-----------------------------------------------------------------------------
(* generateMockCreatives (part_001 lines 212-274, 528-590) *)

EncodeToken(t) ==
    CASE t = " " -> "%20"
      [] t = "&" -> "%26"
      [] OTHER -> t

encodeURIComponent(s) == [i \in 1..Len(s) |-> EncodeToken(s[i])]

defaultPersona ==
    [name |-> Some(<<"Sample User">>), role |-> Some(<<"Professional">>),
     ageRange |-> Some(<<"25-45">>),
     painPoints |-> Some(<< <<"Efficiency">> >>),
     motivations |-> Some(<< <<"Success">> >>),
     interests |-> Some(<< <<"Technology">> >>),
     psychographics |-> Some(<< <<"Analytical">> >>)]

\* strategy.audienceBrief?.personas || []
mockPersonas(strategy_) ==
    IF strategy_.audienceBrief = None THEN <<>>
    ELSE IF strategy_.audienceBrief[1].personas = None THEN <<>>
    ELSE strategy_.audienceBrief[1].personas[1]

\* personas.length > 0 ? personas[0] : defaultPersona
mockPersona(strategy_) ==
    IF Len(mockPersonas(strategy_)) > 0
    THEN Some(mockPersonas(strategy_)[1])
    ELSE Some(defaultPersona)

\* the prompt of the catch branch
samplePrompt(user_, platform) ==
    <<"Generate a sample ">> \o <<platform>> \o <<" ad for ">>
    \o OrElse(Some(user_.companyName), <<"Company">>)

\* mutant: the call of createPrompt is not wrapped in try/catch
mockPromptNoCatch(v, strategy_, user_, platform) ==
    createPrompt(v, strategy_, user_, platform, mockPersona(strategy_))

\* try { prompt = createPrompt(...) } catch { prompt = `Generate a sample ...` }
mockPrompt(v, strategy_, user_, platform) ==
    LET c == createPrompt(v, strategy_, user_, platform, mockPersona(strategy_))
    IN IF c.threw THEN Return(samplePrompt(user_, platform)) ELSE c

PlaceholderHost == "https://via.placeholder.com/"

placeholderSize(platform) ==
    CASE platform = "Facebook" -> "1200x628/007BFF/FFFFFF"
      [] platform = "Instagram" -> "1080x1080/E1306C/FFFFFF"
      [] platform = "LinkedIn" -> "1200x627/0077B5/FFFFFF"
      [] platform = "Google" -> "300x250/4285F4/FFFFFF"
      [] OTHER -> "1200x628/007BFF/FFFFFF"

\* mutant: the text is appended without encodeURIComponent
placeholderUrlRaw(user_, platform) ==
    <<PlaceholderHost, placeholderSize(platform), "?text=">>
    \o OrElse(Some(user_.companyName), <<"Company">>)
    \o <<" ", "-", " ">> \o <<platform>> \o <<" ", "Ad">>

placeholderUrl(user_, platform) ==
    <<PlaceholderHost, placeholderSize(platform), "?text=">>
    \o encodeURIComponent(
          OrElse(Some(user_.companyName), <<"Company">>)
          \o <<" ", "-", " ">> \o <<platform>> \o <<" ", "Ad">>)

mockCreative(user_, platform, prompt) ==
    [url |-> placeholderUrl(user_, platform),
     platform |-> platform,
     dimensions |-> getPlatformDimensions(platform).displaySize,
     prompt |-> prompt]

isKnownPlatform(p) == p \in KnownPlatforms

\* mutant: a platform the switch has no case for gets no placeholder
generateMockCreativesKnownOnly(v, strategy_, user_, platforms_) ==
    LET known == SelectSeq(platforms_, isKnownPlatform)
    IN Return([i \in 1..Len(known) |->
                 mockCreative(user_, known[i],
                     mockPrompt(v, strategy_, user_, known[i]).value)])

generateMockCreatives(v, strategy_, user_, platforms_) ==
    IF \E i \in 1..Len(platforms_) :
          mockPrompt(v, strategy_, user_, platforms_[i]).threw
    THEN Throw
    ELSE Return([i \in 1..Len(platforms_) |->
                   mockCreative(user_, platforms_[i],
                       mockPrompt(v, strategy_, user_, platforms_[i]).value)])

-----------------------------------------------------------------------------
(* generateSingleCreative (part_001 lines 55-139, 329-413) *)

Unborn == [state |-> "unborn", value |-> None]
Pending == [state |-> "pending", value |-> None]
Fulfilled(v) == [state |-> "fulfilled", value |-> v]
Rejected == [state |-> "rejected", value |-> None]

\* strategy.audienceBrief.personas[0]
singlePersona(strategy_) ==
    IF strategy_.audienceBrief = None THEN Throw
    ELSE IF strategy_.audienceBrief[1].personas = None THEN Throw
    ELSE Return(First(strategy_.audienceBrief[1].personas[1]))

\* the prompt built before the request is made
singlePrompt(v, strategy_, user_, platform) ==
    IF singlePersona(strategy_).threw THEN Throw
    ELSE createPrompt(v, strategy_, user_, platform, singlePersona(strategy_).value)

\* The function up to its await: the promise it returns and the number of
\* axios.post calls it made.  An exception before the request is caught by
\* the outer try and the promise is fulfilled with null.
singleStart(v, key, strategy_, user_, platform) ==
    IF singlePrompt(v, strategy_, user_, platform).threw
    THEN [promise |-> Fulfilled(None), posts |-> 0]
    ELSE IF ~key
    THEN [promise |-> Fulfilled(None), posts |-> 0]
    ELSE [promise |-> Pending, posts |-> 1]

\* mutant: a failed request is sent once more
singleSettleRetry(v, strategy_, user_, platform, i, response) ==
    IF response = "ok"
    THEN [promise |->
            Fulfilled(Some(
              [url |-> UpstreamUrl(i),
               platform |-> platform,
               dimensions |-> getPlatformDimensions(platform).displaySize,
               prompt |-> singlePrompt(v, strategy_, user_, platform).value])),
          posts |-> 0]
    ELSE [promise |-> Pending, posts |-> 1]

\* mutant: a failed request is not caught and rejects the promise
singleSettleReject(v, strategy_, user_, platform, i, response) ==
    IF response = "ok"
    THEN [promise |->
            Fulfilled(Some(
              [url |-> UpstreamUrl(i),
               platform |-> platform,
               dimensions |-> getPlatformDimensions(platform).displaySize,
               prompt |-> singlePrompt(v, strategy_, user_, platform).value])),
          posts |-> 0]
    ELSE [promise |-> Rejected, posts |-> 0]

\* mutant: a failed request is answered with the platform's mock creative
singleSettleMockOnError(v, strategy_, user_, platform, i, response) ==
    [promise |->
        Fulfilled(Some(
          [url |-> IF response = "ok" THEN UpstreamUrl(i)
                   ELSE placeholderUrl(user_, platform),
           platform |-> platform,
           dimensions |-> getPlatformDimensions(platform).displaySize,
           prompt |-> singlePrompt(v, strategy_, user_, platform).value])),
     posts |-> 0]

\* The function after its await, given how the request ended: the promise,
\* and the number of further axios.post calls made.
singleSettle(v, strategy_, user_, platform, i, response) ==
    IF response = "ok"
    THEN [promise |->
            Fulfilled(Some(
              [url |-> UpstreamUrl(i),
               platform |-> platform,
               dimensions |-> getPlatformDimensions(platform).displaySize,
               prompt |-> singlePrompt(v, strategy_, user_, platform).value])),
          posts |-> 0]
    ELSE [promise |-> Fulfilled(None), posts |-> 0]

-----------------------------------------------------------------------------
(* generateAdCreatives (part_001 lines 22-50, 296-324) *)

N == Len(platforms)

\* await Promise.all(promises): resumes when every promise is fulfilled, or
\* as soon as one is rejected
promiseAllSettled(promises_) ==
    \/ \A i \in 1..Len(promises_) : promises_[i].state = "fulfilled"
    \/ \E i \in 1..Len(promises_) : promises_[i].state = "rejected"

promiseAllRejected(promises_) ==
    \E i \in 1..Len(promises_) : promises_[i].state = "rejected"

notNull(p) == p.value # None

\* mutant: find instead of filter, only the first creative is kept
validCreativesFirst(promises_) ==
    LET kept == SelectSeq(promises_, notNull)
    IN [k \in 1..(IF Len(kept) > 0 THEN 1 ELSE 0) |-> kept[k].value[1]]

\* mutant: the creatives are collected as their responses arrive
validCreativesByArrival(promises_) ==
    LET done == SelectSeq(arrived, LAMBDA a : a.ok)
    IN [k \in 1..Len(done) |-> promises_[done[k].index].value[1]]

\* creatives.filter(c => c !== null)
validCreatives(promises_) ==
    LET kept == SelectSeq(promises_, notNull)
    IN [k \in 1..Len(kept) |-> kept[k].value[1]]

\* mutant: no fallback when no creative is valid
joinCompletionNoFallback(v, strategy_, user_, platforms_, promises_) ==
    Return(validCreatives(promises_))

\* mutant: a failed platform gets its mock creative
joinCompletionFill(v, strategy_, user_, platforms_, promises_) ==
    LET mock == generateMockCreatives(v, strategy_, user_, platforms_)
    IN IF mock.threw THEN mock
       ELSE Return([i \in 1..Len(promises_) |->
                      IF promises_[i].value = None THEN mock.value[i]
                      ELSE promises_[i].value[1]])

\* mutant: the fallback lists the platforms in the order they failed
joinCompletionMockByArrival(v, strategy_, user_, platforms_, promises_) ==
    IF Len(validCreatives(promises_)) = 0
    THEN generateMockCreatives(v, strategy_, user_,
             IF Len(arrived) = Len(platforms_)
             THEN [k \in 1..Len(arrived) |-> platforms_[arrived[k].index]]
             ELSE platforms_)
    ELSE Return(validCreatives(promises_))

\* what the function does once Promise.all has settled
joinCompletion(v, strategy_, user_, platforms_, promises_) ==
    IF promiseAllRejected(promises_)
    THEN generateMockCreatives(v, strategy_, user_, platforms_)
    ELSE IF Len(validCreatives(promises_)) = 0
    THEN generateMockCreatives(v, strategy_, user_, platforms_)
    ELSE Return(validCreatives(promises_))

\* mutant: each promise is awaited before the next platform is visited
yieldedEach(pc_, promises_, next_) ==
    \/ pc_ = "awaiting"
    \/ /\ pc_ = "mapping"
       /\ \E j \in 1..Len(promises_) : promises_[j].state = "pending"

\* generateAdCreatives is suspended at an await, so that the continuations
\* of its requests may run: its only await is the one of Promise.all, after
\* platforms.map has visited every platform
yielded(pc_, promises_, next_) == pc_ = "awaiting"

\* the promise of generateAdCreatives settles with a completion
Finish(c) ==
    /\ pc' = IF c.threw THEN "rejected" ELSE "resolved"
    /\ result' = c.value

\* mutant: the credential is not checked on entry
CallNoKeyCheck ==
    /\ pc = "start"
    /\ pc' = "mapping"
    /\ UNCHANGED <<variant, OPENAI_API_KEY, strategy, user, platforms, next,
                   promises, posts, arrived, lastResponse, result, promptCall>>
    /\ UNCHANGED restVars

\* entry: without a credential the mock creatives are returned at once
Call ==
    /\ pc = "start"
    /\ IF ~OPENAI_API_KEY
       THEN Finish(generateMockCreatives(variant, strategy, user, platforms))
       ELSE pc' = "mapping" /\ result' = result
    /\ UNCHANGED <<variant, OPENAI_API_KEY, strategy, user, platforms, next,
                   promises, posts, arrived, lastResponse, promptCall>>
    /\ UNCHANGED restVars

\* one step of platforms.map: generateSingleCreative runs up to its await
Launch ==
    /\ pc = "mapping"
    /\ ~yielded(pc, promises, next)
    /\ next <= N
    /\ LET s == singleStart(variant, OPENAI_API_KEY, strategy, user, platforms[next])
       IN /\ promises' = [promises EXCEPT ![next] = s.promise]
          /\ posts' = [posts EXCEPT ![next] = @ + s.posts]
    /\ next' = next + 1
    /\ UNCHANGED <<variant, OPENAI_API_KEY, strategy, user, platforms, pc,
                   arrived, lastResponse, result, promptCall>>
    /\ UNCHANGED restVars

\* platforms.map is done; the function awaits Promise.all and yields
AwaitAll ==
    /\ pc = "mapping"
    /\ ~yielded(pc, promises, next)
    /\ next > N
    /\ pc' = "awaiting"
    /\ UNCHANGED <<variant, OPENAI_API_KEY, strategy, user, platforms, next,
                   promises, posts, arrived, lastResponse, result, promptCall>>
    /\ UNCHANGED restVars

\* the request of platform i ends and generateSingleCreative resumes
Respond(i, response) ==
    /\ yielded(pc, promises, next)
    /\ promises[i].state = "pending"
    /\ LET s == singleSettle(variant, strategy, user, platforms[i], i, response)
       IN /\ promises' = [promises EXCEPT ![i] = s.promise]
          /\ posts' = [posts EXCEPT ![i] = @ + s.posts]
    /\ arrived' = Append(arrived, [index |-> i, ok |-> response = "ok"])
    /\ lastResponse' = response
    /\ UNCHANGED <<variant, OPENAI_API_KEY, strategy, user, platforms, pc, next,
                   result, promptCall>>
    /\ UNCHANGED restVars

\* Promise.all has settled; the function filters, falls back and returns
Join ==
    /\ pc = "awaiting"
    /\ promiseAllSettled(promises)
    /\ Finish(joinCompletion(variant, strategy, user, platforms, promises))
    /\ UNCHANGED <<variant, OPENAI_API_KEY, strategy, user, platforms, next,
                   promises, posts, arrived, lastResponse, promptCall>>
    /\ UNCHANGED restVars

NoPromptCall == [persona |-> None, out |-> None]

\* the other components at rest
ServerInit == exchanges = <<>>

\* the concurrent callers of the one DatabaseService instance
Callers == {1, 2}

Emails == {"a@x.io", "b@x.io"}

\* the companyName and companyUrl of UserData
Profiles ==
    {[companyName |-> "Acme", companyUrl |-> "acme.io"],
     [companyName |-> "Beta", companyUrl |-> "beta.io"]}

\* the argument of saveUser
UserDatas ==
    {[email |-> e, companyName |-> p.companyName, companyUrl |-> p.companyUrl] :
        e \in Emails, p \in Profiles}

\* a caller that has no call running
IdleCall ==
    [op |-> "none", pc |-> "idle", email |-> "", data |-> None,
     existing |-> None, wrote |-> "none", rowAtIssue |-> FALSE,
     failed |-> FALSE, tableAtCall |-> FALSE, ret |-> Return(None)]

\* no call running, nothing stored, nothing saved yet
DbQuiet ==
    /\ usersTable = {}
    /\ calls = [c \in Callers |-> IdleCall]
    /\ callsMade = 0
    /\ lastSaved = [e \in Emails |-> None]

\* DatabaseService left unused
DbRest ==
    /\ connectionString = FALSE
    /\ reliable = TRUE
    /\ tableExists = FALSE
    /\ dbInit = "failed"
    /\ DbQuiet

\* the three operations the hook returns
Operations ==
    {"analyzeCampaign", "generateMediaPlan", "generateCreativeRecommendations"}

\* an operation that has not been called
IdleOp == [pc |-> "idle", outcome |-> None, ret |-> Return(None), clean |-> TRUE]

\* useState(false), useState(null), no operation called
HookInit ==
    /\ loading = FALSE
    /\ error = None
    /\ ops = [o \in Operations |-> IdleOp]
    /\ opsStarted = 0

RestInit == firstResult = None /\ ServerInit /\ DbRest /\ HookInit

Init ==
    /\ variant \in {1, 2}
    /\ OPENAI_API_KEY \in BOOLEAN
    /\ strategy \in Strategies
    /\ user \in Users
    /\ platforms \in PlatformLists
    /\ pc = "start"
    /\ next = 1
    /\ promises = [i \in 1..Len(platforms) |-> Unborn]
    /\ posts = [i \in 1..Len(platforms) |-> 0]
    /\ arrived = <<>>
    /\ lastResponse = "none"
    /\ result = <<>>
    /\ promptCall = NoPromptCall
    /\ RestInit

Next ==
    \/ Call
    \/ Launch
    \/ AwaitAll
    \/ \E i \in 1..N : \E response \in Responses : Respond(i, response)
    \/ Join

Spec == Init /\ [][Next]_vars

\* The company name only fills in text and takes no part in the control
\* flow: the calls of a user with one fixed name
InitOneUser == Init /\ user.companyName = <<"Acme">>

SpecOneUser == InitOneUser /\ [][Next]_vars

\* The event loop runs every continuation that is ready, and every request
\* made ends with a response or an error.  Followed for one strategy whose
\* prompts can be built and one whose prompts cannot.
FairInit == InitOneUser /\ strategy \in {FullStrategy, NoBriefStrategy}

FairSpec == FairInit /\ [][Next]_vars /\ WF_vars(Next)

-----------------------------------------------------------------------------
(* A second call of generateAdCreatives with the same arguments *)

\* the call fell back to the mock creatives
fellBack == ~OPENAI_API_KEY \/ \A i \in 1..N : promises[i].value = None

\* After a call that fell back, the caller calls again with the same
\* strategy, user and platforms; the credential may be configured or not.
CallAgain ==
    /\ pc = "resolved"
    /\ firstResult = None
    /\ fellBack
    /\ firstResult' = Some(result)
    /\ OPENAI_API_KEY' \in BOOLEAN
    /\ pc' = "start"
    /\ next' = 1
    /\ promises' = [i \in 1..N |-> Unborn]
    /\ posts' = [i \in 1..N |-> 0]
    /\ arrived' = <<>>
    /\ lastResponse' = "none"
    /\ result' = <<>>
    /\ UNCHANGED <<variant, strategy, user, platforms, promptCall>>
    /\ UNCHANGED otherVars

NextTwoRuns == Next \/ CallAgain

\* the two calls are followed for a user without company name, the case in
\* which the mock creatives fall back to the name 'Company'
InitTwoRuns == Init /\ user.companyName = <<>>

SpecTwoRuns == InitTwoRuns /\ [][NextTwoRuns]_vars

-----------------------------------------------------------------------------
(* A direct call of the template function createPrompt *)

PromptPersonas ==
    {None, Some(FullPersona), Some(PartialPersona), Some(EmptyListsPersona),
     Some(defaultPersona)}

CreatePromptCall ==
    /\ pc = "createPrompt"
    /\ promptCall' = [promptCall EXCEPT !.out =
           Some(createPrompt(variant, strategy, user, platforms[1], promptCall.persona))]
    /\ pc' = "returned"
    /\ UNCHANGED <<variant, OPENAI_API_KEY, strategy, user, platforms, next,
                   promises, posts, arrived, lastResponse, result>>
    /\ UNCHANGED restVars

InitPrompt ==
    /\ variant \in {1, 2}
    /\ OPENAI_API_KEY \in BOOLEAN
    /\ strategy \in {NoBriefStrategy, FullStrategy}
    /\ user \in Users
    /\ platforms \in {<<p>> : p \in Platforms}
    /\ pc = "createPrompt"
    /\ next = 1
    /\ promises = <<Unborn>>
    /\ posts = <<0>>
    /\ arrived = <<>>
    /\ lastResponse = "none"
    /\ result = <<>>
    /\ promptCall \in {[persona |-> p, out |-> None] : p \in PromptPersonas}
    /\ RestInit

NextPrompt == CreatePromptCall

SpecPrompt == InitPrompt /\ [][NextPrompt]_vars

-----------------------------------------------------------------------------
(* The image service while no call of it is running *)

creativeVars == <<variant, OPENAI_API_KEY, strategy, user, platforms, pc, next,
                  promises, posts, arrived, lastResponse, result, promptCall,
                  firstResult>>

CreativeIdle ==
    /\ variant = 2
    /\ OPENAI_API_KEY = FALSE
    /\ strategy = FullStrategy
    /\ user = [companyName |-> <<"Acme">>]
    /\ platforms = <<>>
    /\ pc = "idle"
    /\ next = 1
    /\ promises = <<>>
    /\ posts = <<>>
    /\ arrived = <<>>
    /\ lastResponse = "none"
    /\ result = <<>>
    /\ promptCall = NoPromptCall
    /\ firstResult = None

-----------------------------------------------------------------------------
(* The local CORS server (src/deploy-to-vercel.md, lines 119-145) *)

Methods == {"GET", "POST", "OPTIONS", "PUT", "HEAD"}
Urls == {"/api/hello", "/", "/api/hello?x=1", "/api/other"}

\* a fresh ServerResponse: no header set, nothing written
NewResponse == [headers |-> <<>>, heads |-> <<>>, bodies |-> <<>>]

\* res.setHeader(name, value)
setHeader(res, name, value) ==
    [res EXCEPT !.headers = (name :> value) @@ @]

\* res.writeHead(status, headers)
writeHead(res, status, headers) ==
    [res EXCEPT !.heads = Append(@, status), !.headers = headers @@ @]

\* res.end(body)
end(res, body) == [res EXCEPT !.bodies = Append(@, body)]

\* JSON.stringify of an object with the one field `message`
stringifyMessage(message) ==
    <<"{", "\"message\"", ":", "\"">> \o message \o <<"\"", "}">>

Greeting == stringifyMessage(<<"Hello from the server">>)
RunningText == <<"Server is running">>

\* the three setHeader calls every request starts with
withCors(res) ==
    setHeader(
      setHeader(
        setHeader(res, "Access-Control-Allow-Origin", "*"),
        "Access-Control-Allow-Methods", "GET, POST, OPTIONS"),
      "Access-Control-Allow-Headers", "Content-Type, Authorization")

\* the answer to a preflight request
preflight(res) == end(writeHead(res, 200, <<>>), None)

\* the routes
route(res, req) ==
    IF req.url = "/api/hello"
    THEN end(writeHead(res, 200, "Content-Type" :> "application/json"),
             Some(Greeting))
    ELSE end(writeHead(res, 200, "Content-Type" :> "text/plain"),
             Some(RunningText))

\* mutant: the preflight branch does not return
handlerFallThrough(req) ==
    IF req.method = "OPTIONS"
    THEN route(preflight(withCors(NewResponse)), req)
    ELSE route(withCors(NewResponse), req)

\* the request listener given to http.createServer
handler(req) ==
    IF req.method = "OPTIONS"
    THEN preflight(withCors(NewResponse))
    ELSE route(withCors(NewResponse), req)

\* a request arrives and the listener runs to its end
Request(method, url) ==
    /\ Len(exchanges) < MaxRequests
    /\ LET req == [method |-> method, url |-> url]
       IN exchanges' = Append(exchanges, [req |-> req, res |-> handler(req)])
    /\ UNCHANGED <<creativeVars, dbVars, hookVars>>

InitServer == CreativeIdle /\ ServerInit /\ DbRest /\ HookInit

NextServer == \E method \in Methods, url \in Urls : Request(method, url)

SpecServer == InitServer /\ [][NextServer]_vars

-----------------------------------------------------------------------------
(* DatabaseService (src/unnamed/part_001, lines 605-736) and the table users *)

rowsOf(table, email) == {r \in table : r.email = email}

\* SELECT ... FROM users WHERE email = ${email}
sqlSelect(exists, table, email) ==
    IF ~exists THEN Throw ELSE Return(rowsOf(table, email))

\* UPDATE users SET company_name, company_url WHERE email = ... RETURNING ...
sqlUpdate(exists, table, userData) ==
    IF ~exists
    THEN [out |-> Throw, table |-> table]
    ELSE LET updated ==
                 {[r EXCEPT !.company_name = userData.companyName,
                            !.company_url = userData.companyUrl] :
                     r \in rowsOf(table, userData.email)}
         IN [out |-> Return(updated),
             table |-> (table \ rowsOf(table, userData.email)) \cup updated]

\* the row INSERT builds: id and created_at take their column defaults
newRow(table, userData) ==
    [id |-> Cardinality(table) + 1, email |-> userData.email,
     company_name |-> userData.companyName,
     company_url |-> userData.companyUrl,
     created_at |-> Cardinality(table) + 1]

\* mutant: the column email is not UNIQUE
sqlInsertNoUnique(exists, table, userData) ==
    IF ~exists
    THEN [out |-> Throw, table |-> table]
    ELSE [out |-> Return({newRow(table, userData)}),
          table |-> table \cup {newRow(table, userData)}]

\* INSERT INTO users (email, company_name, company_url) ... RETURNING ...
\* under the table's constraint email UNIQUE
sqlInsert(exists, table, userData) ==
    IF ~exists \/ rowsOf(table, userData.email) # {}
    THEN [out |-> Throw, table |-> table]
    ELSE [out |-> Return({newRow(table, userData)}),
          table |-> table \cup {newRow(table, userData)}]

\* the UserData built from rows[0]
toUserData(rows) ==
    LET row == CHOOSE r \in rows : TRUE
    IN [id |-> row.id, email |-> row.email, companyName |-> row.company_name,
        companyUrl |-> row.company_url, createdAt |-> row.created_at]

\* what getUserByEmail resolves with, given the outcome of its SELECT
getUserCompletion(out) ==
    IF out.threw THEN Return(None)
    ELSE IF out.value = {} THEN Return(None)
    ELSE Return(Some(toUserData(out.value)))

\* what saveUser resolves with, given the outcome of its UPDATE or INSERT
saveUserCompletion(out) ==
    IF out.threw THEN Return(None)
    ELSE IF out.value # {} THEN Return(Some(toUserData(out.value)))
    ELSE Return(None)

\* the CREATE TABLE IF NOT EXISTS the constructor sent reaches the database
CreateTable(ok) ==
    /\ dbInit = "pending"
    /\ ok => connectionString
    /\ (reliable /\ connectionString) => ok
    /\ dbInit' = IF ok THEN "done" ELSE "failed"
    /\ tableExists' = (tableExists \/ ok)
    /\ UNCHANGED <<connectionString, reliable, usersTable, calls, callsMade,
                   lastSaved>>
    /\ UNCHANGED <<creativeVars, serverVars, hookVars>>

\* a call starts: without connection string it resolves to null at once,
\* else it sends the SELECT of getUserByEmail
startCall(op, email, data) ==
    [IdleCall EXCEPT !.op = op, !.email = email, !.data = data,
                     !.tableAtCall = tableExists,
                     !.pc = IF connectionString THEN "lookup" ELSE "done"]

SaveUser(c, userData) ==
    /\ calls[c].pc \in {"idle", "done"}
    /\ callsMade < MaxCalls
    /\ callsMade' = callsMade + 1
    /\ calls' = [calls EXCEPT ![c] = startCall("save", userData.email, Some(userData))]
    /\ UNCHANGED <<connectionString, reliable, tableExists, dbInit, usersTable,
                   lastSaved>>
    /\ UNCHANGED <<creativeVars, serverVars, hookVars>>

GetUserByEmail(c, email) ==
    /\ calls[c].pc \in {"idle", "done"}
    /\ callsMade < MaxCalls
    /\ callsMade' = callsMade + 1
    /\ calls' = [calls EXCEPT ![c] = startCall("get", email, None)]
    /\ UNCHANGED <<connectionString, reliable, tableExists, dbInit, usersTable,
                   lastSaved>>
    /\ UNCHANGED <<creativeVars, serverVars, hookVars>>

\* the SELECT runs and getUserByEmail resolves; inside saveUser the caller
\* goes on to send its UPDATE or INSERT
Lookup(c, ok) ==
    /\ calls[c].pc = "lookup"
    /\ reliable => ok
    /\ LET out == IF ok THEN sqlSelect(tableExists, usersTable, calls[c].email)
                  ELSE Throw
           found == getUserCompletion(out)
       IN calls' = [calls EXCEPT ![c] =
              IF calls[c].op = "get"
              THEN [@ EXCEPT !.pc = "done", !.ret = found,
                             !.failed = out.threw]
              ELSE [@ EXCEPT !.pc = "write", !.existing = found.value,
                             !.wrote = IF found.value # None THEN "update"
                                       ELSE "insert",
                             !.rowAtIssue =
                                 rowsOf(usersTable, calls[c].email) # {},
                             !.failed = out.threw]]
    /\ UNCHANGED <<connectionString, reliable, tableExists, dbInit, usersTable,
                   callsMade, lastSaved>>
    /\ UNCHANGED <<creativeVars, serverVars, hookVars>>

\* the UPDATE or INSERT runs and saveUser resolves
Write(c, ok) ==
    /\ calls[c].pc = "write"
    /\ reliable => ok
    /\ LET userData == calls[c].data[1]
           done == IF ~ok THEN [out |-> Throw, table |-> usersTable]
                   ELSE IF calls[c].wrote = "update"
                        THEN sqlUpdate(tableExists, usersTable, userData)
                        ELSE sqlInsert(tableExists, usersTable, userData)
           ret == saveUserCompletion(done.out)
       IN /\ usersTable' = done.table
          /\ calls' = [calls EXCEPT ![c] =
                 [@ EXCEPT !.pc = "done", !.ret = ret,
                           !.failed = @ \/ done.out.threw]]
          /\ lastSaved' =
                 IF ret.value # None
                 THEN [lastSaved EXCEPT ![userData.email] =
                          Some([companyName |-> userData.companyName,
                                companyUrl |-> userData.companyUrl])]
                 ELSE lastSaved
    /\ UNCHANGED <<connectionString, reliable, tableExists, dbInit, callsMade>>
    /\ UNCHANGED <<creativeVars, serverVars, hookVars>>

\* the module is loaded: the constructor has sent CREATE TABLE and returned
InitDb ==
    /\ CreativeIdle
    /\ ServerInit
    /\ HookInit
    /\ connectionString \in BOOLEAN
    /\ reliable \in BOOLEAN
    /\ tableExists \in BOOLEAN
    /\ dbInit = "pending"
    /\ DbQuiet

NextDb ==
    \/ \E ok \in BOOLEAN : CreateTable(ok)
    \/ \E c \in Callers, userData \in UserDatas : SaveUser(c, userData)
    \/ \E c \in Callers, email \in Emails : GetUserByEmail(c, email)
    \/ \E c \in Callers, ok \in BOOLEAN : Lookup(c, ok)
    \/ \E c \in Callers, ok \in BOOLEAN : Write(c, ok)

SpecDb == InitDb /\ [][NextDb]_vars

-----------------------------------------------------------------------------
(* The hook useOpenAI (src/unnamed/part_000, lines 26-88) *)

\* how a call of openAIService can end: with a result, with a thrown Error
\* carrying a message, or with a thrown value that is not an Error
ServiceOutcomes ==
    {[kind |-> "result", text |-> "analysis"],
     [kind |-> "Error", text |-> "Rate limit exceeded"],
     [kind |-> "Error", text |-> "Network Error"],
     [kind |-> "thrown", text |-> "a string"]}

\* err instanceof Error ? err.message : 'Unknown error occurred'
errorMessage(err) ==
    IF err.kind = "Error" THEN err.text ELSE "Unknown error occurred"

\* mutant: the operation has no catch
opCompletionNoCatch(outcome) ==
    IF outcome.kind = "result" THEN Return(Some(outcome.text)) ELSE Throw

\* what an operation resolves with, given how its service call ended
opCompletion(outcome) ==
    IF outcome.kind = "result" THEN Return(Some(outcome.text))
    ELSE Return(None)

\* an operation is called: setLoading(true), setError(null), then it awaits
\* its service call
StartOp(o) ==
    /\ ops[o].pc # "inflight"
    /\ opsStarted < MaxOps
    /\ opsStarted' = opsStarted + 1
    /\ loading' = TRUE
    /\ error' = None
    /\ ops' = [ops EXCEPT ![o] = [IdleOp EXCEPT !.pc = "inflight"]]
    /\ UNCHANGED <<creativeVars, serverVars, dbVars>>

\* the service call of an operation settles and the operation resumes
SettleOp(o, outcome) ==
    /\ ops[o].pc = "inflight"
    /\ error' = IF outcome.kind = "result" THEN error
                ELSE Some(errorMessage(outcome))
    /\ loading' = FALSE
    /\ ops' = [p \in Operations |->
                 IF p = o
                 THEN [ops[p] EXCEPT !.pc = "done", !.outcome = Some(outcome),
                                     !.ret = opCompletion(outcome)]
                 ELSE IF ops[p].pc = "inflight" /\ outcome.kind # "result"
                      THEN [ops[p] EXCEPT !.clean = FALSE]
                      ELSE ops[p]]
    /\ UNCHANGED opsStarted
    /\ UNCHANGED <<creativeVars, serverVars, dbVars>>

InitHook == CreativeIdle /\ ServerInit /\ DbRest /\ HookInit

NextHook ==
    \/ \E o \in Operations : StartOp(o)
    \/ \E o \in Operations, outcome \in ServiceOutcomes : SettleOp(o, outcome)

SpecHook == InitHook /\ [][NextHook]_vars

-----------------------------------------------------------------------------
(* Properties *)

IsPlaceholder(c) == c.url[1] = PlaceholderHost

\* the requests that were answered with a creative, and those that were not
Succeeded == {arrived[k].index : k \in {j \in 1..Len(arrived) : arrived[j].ok}}
Failed == {arrived[k].index : k \in {j \in 1..Len(arrived) : ~arrived[j].ok}}

\* one placeholder entry per requested platform, in the requested order
OnePlaceholderPerPlatform ==
    /\ Len(result) = N
    /\ \A i \in 1..N :
          /\ result[i].platform = platforms[i]
          /\ IsPlaceholder(result[i])

\* C1: without a credential the call returns one entry per requested
\* platform, in the requested order, each tagged with its platform and
\* carrying a placeholder URL.
C1_NoCredentialPlaceholders ==
    (~OPENAI_API_KEY /\ pc # "start") =>
        (pc = "resolved" /\ OnePlaceholderPerPlatform)

C1_Witness ==
    /\ ~OPENAI_API_KEY
    /\ pc = "resolved"
    /\ N >= 2
    /\ platforms[1] # platforms[2]
    /\ IsPlaceholder(result[2])

\* C2: with a credential, when every per-platform call has failed (by its
\* response or while building the prompt), the call returns one placeholder
\* entry per requested platform, for the empty list too.
C2_AllFailedPlaceholders ==
    (OPENAI_API_KEY /\ pc \in {"resolved", "rejected"} /\ Succeeded = {}) =>
        (pc = "resolved" /\ OnePlaceholderPerPlatform)

C2_Witness ==
    /\ OPENAI_API_KEY
    /\ pc = "resolved"
    /\ N >= 2
    /\ Failed = 1..N
    /\ IsPlaceholder(result[1])

\* C3: the promise of generateAdCreatives is never rejected, whatever the
\* strategy and however the requests end: the call is resolved or can still
\* take a step.
C3_NeverRejects ==
    /\ pc # "rejected"
    /\ pc = "resolved" \/ ENABLED Next

C3_Witness ==
    /\ pc = "resolved"
    /\ OPENAI_API_KEY
    /\ variant = 1
    /\ strategy = NoBriefStrategy
    /\ N >= 1
    /\ Len(result) = N

\* C4: when at least one call succeeded, the result holds exactly the
\* creatives of the succeeded platforms: one entry per succeeded request,
\* carrying the URL returned to that request, no entry for a failed one and
\* no placeholder.
C4_ExactlyTheSucceeded ==
    (OPENAI_API_KEY /\ pc = "resolved" /\ Succeeded # {}) =>
        /\ Len(result) = Cardinality(Succeeded)
        /\ \A i \in Succeeded :
              \E k \in 1..Len(result) :
                 /\ result[k].url = UpstreamUrl(i)
                 /\ result[k].platform = platforms[i]
        /\ \A k \in 1..Len(result) :
              /\ ~IsPlaceholder(result[k])
              /\ \E i \in Succeeded : result[k].url = UpstreamUrl(i)

C4_Witness ==
    /\ OPENAI_API_KEY
    /\ pc = "resolved"
    /\ Cardinality(Succeeded) >= 2
    /\ Failed # {}
    /\ Len(result) = Cardinality(Succeeded)

\* the prompt of a platform can be built: the strategy has a first persona
\* and createPrompt does not throw on it
HasFirstPersona ==
    /\ strategy.audienceBrief # None
    /\ strategy.audienceBrief[1].personas # None
    /\ Len(strategy.audienceBrief[1].personas[1]) > 0

PromptBuilt ==
    /\ HasFirstPersona
    /\ variant = 1 =>
          LET persona == strategy.audienceBrief[1].personas[1][1]
          IN /\ persona.painPoints # None
             /\ persona.motivations # None
             /\ persona.interests # None
             /\ persona.psychographics # None

\* C5 as stated: with a credential, once the platforms are mapped, exactly
\* one POST has been made for each requested platform.
C5_ExactlyOnePostPerPlatform ==
    (OPENAI_API_KEY /\ pc \in {"awaiting", "resolved"}) =>
        \A i \in 1..N : posts[i] = 1

\* C5 amended: with a credential, at most one POST is ever made per
\* requested platform and a failed one is never sent again; once the
\* platforms are mapped it is exactly one for each platform if the prompt
\* could be built, and none if building the prompt threw.
C5_OnePostWhenPromptBuilt ==
    OPENAI_API_KEY =>
        \A i \in 1..N :
           /\ posts[i] <= 1
           /\ pc \in {"awaiting", "resolved"} =>
                 posts[i] = IF PromptBuilt THEN 1 ELSE 0

C5_Witness ==
    /\ OPENAI_API_KEY
    /\ pc = "resolved"
    /\ N >= 2
    /\ Failed # {}
    /\ \A i \in 1..N : posts[i] = 1

\* C6: the requests are launched concurrently: when the first response is
\* handled, the POST of every requested platform has already been made.
C6_AllPostedBeforeAnyResponse ==
    arrived # <<>> =>
        /\ next > N
        /\ \A j \in 1..N : posts[j] = 1

\* the responses came in the reverse of the order the requests were made
C6_Witness ==
    /\ Len(arrived) >= 2
    /\ arrived[1].index > arrived[2].index
    /\ \A j \in 1..N : posts[j] = 1

\* C7: the fan-out is joined: the call has returned only if no request is
\* still in flight, and the call eventually returns.
C7_JoinedAndReturns ==
    /\ []((OPENAI_API_KEY /\ pc \in {"resolved", "rejected"}) =>
             \A i \in 1..N : promises[i].state = "fulfilled")
    /\ <>(pc = "resolved")

\* an early failure, and the call returned after the later responses
C7_Witness ==
    /\ OPENAI_API_KEY
    /\ pc = "resolved"
    /\ Len(arrived) >= 2
    /\ ~arrived[1].ok
    /\ arrived[Len(arrived)].ok

\* C8: a prompt produced by createPrompt contains the company name and the
\* platform name, for the known platforms and for any other.
C8_PromptNamesCompanyAndPlatform ==
    (pc = "returned" /\ ~promptCall.out[1].threw) =>
        /\ Contains(promptCall.out[1].value, user.companyName)
        /\ Contains(promptCall.out[1].value, <<platforms[1]>>)

\* C9: when the personas list is empty or absent, the prompts of the
\* returned results are built from the default persona.
C9_DefaultPersonaPrompts ==
    (pc = "resolved" /\ ~HasFirstPersona) =>
        \A k \in 1..Len(result) :
           /\ Contains(result[k].prompt, <<"Sample User">>)
           /\ Contains(result[k].prompt, <<"Professional">>)
           /\ Contains(result[k].prompt, <<"25-45">>)

\* C10: a returned list is made of upstream creatives only or of
\* placeholders only, and placeholders appear only without a credential or
\* when no call succeeded.
C10_NoMix ==
    pc = "resolved" =>
        /\ \/ \A k \in 1..Len(result) : IsPlaceholder(result[k])
           \/ \A k \in 1..Len(result) : ~IsPlaceholder(result[k])
        /\ (\E k \in 1..Len(result) : IsPlaceholder(result[k])) =>
              (~OPENAI_API_KEY \/ Succeeded = {})

C10_Witness ==
    /\ OPENAI_API_KEY
    /\ pc = "resolved"
    /\ Succeeded # {}
    /\ Failed # {}
    /\ \A k \in 1..Len(result) : ~IsPlaceholder(result[k])
    /\ Len(result) < N

\* decodeURIComponent, token by token
DecodeToken(t) ==
    CASE t = "%20" -> " "
      [] t = "%26" -> "&"
      [] OTHER -> t

\* the value of the query-string parameter text of a URL: what follows
\* "?text=" up to the next "&", decoded
TextParam(url) ==
    LET start == CHOOSE i \in 1..Len(url) : url[i] = "?text="
        stops == {j \in (start + 1)..Len(url) : url[j] = "&"}
        stop == IF stops = {} THEN Len(url) + 1
                ELSE CHOOSE j \in stops : \A j2 \in stops : j <= j2
        raw == SubSeq(url, start + 1, stop - 1)
    IN [i \in 1..Len(raw) |-> DecodeToken(raw[i])]

\* C11: the text parameter of every placeholder URL holds the name of the
\* platform the entry is tagged with and the company name, 'Company' when the
\* company name is empty.
C11_PlaceholderTextNamesPlatformAndCompany ==
    pc = "resolved" =>
        \A k \in 1..Len(result) :
           IsPlaceholder(result[k]) =>
              /\ Contains(TextParam(result[k].url), <<result[k].platform>>)
              /\ Contains(TextParam(result[k].url),
                     IF user.companyName = <<>> THEN <<"Company">>
                     ELSE user.companyName)

\* a placeholder for a company name that needs escaping, and one for the
\* empty company name, are checked by the two disjuncts
C11_Witness ==
    /\ pc = "resolved"
    /\ Len(result) >= 1
    /\ IsPlaceholder(result[1])
    /\ user.companyName = <<"Acme", " ", "&", " ", "Co">>
    /\ Contains(result[1].url, <<"Acme", "%20", "%26", "%20", "Co">>)

\* C15: without a credential the call falls back at once: it is resolved by
\* its first step and no POST is ever made.
C15_NoCredentialNoRequest ==
    ~OPENAI_API_KEY =>
        /\ pc \in {"start", "resolved"}
        /\ \A i \in 1..N : posts[i] = 0 /\ promises[i].state = "unborn"
        /\ arrived = <<>>

C15_Witness ==
    /\ ~OPENAI_API_KEY
    /\ pc = "resolved"
    /\ strategy = FullStrategy
    /\ N >= 2
    /\ Len(result) = N

\* C16: a request that ends in an HTTP error, without a response, in a
\* set-up error or in a 2xx response without data makes the promise of its
\* platform null, changes no other promise, and the platform contributes no
\* entry to a list of upstream creatives.
C16_FailureIsNullForThatPlatform ==
    [][/\ \A i \in 1..N :
             (promises[i].state = "pending" /\ promises'[i] # promises[i]) =>
                /\ \A j \in 1..N : j # i => promises'[j] = promises[j]
                /\ lastResponse' \in Failures =>
                      promises'[i] = Fulfilled(None)
                /\ lastResponse' = "ok" =>
                      promises'[i].value # None
       /\ pc' = "resolved" =>
             \A k \in 1..Len(result') :
                /\ result'[k].url # None
                /\ \A i \in Failed' : result'[k].url # UpstreamUrl(i)]_vars

C16_Witness ==
    /\ pc = "resolved"
    /\ lastResponse = "emptyData"
    /\ Succeeded # {}
    /\ Len(result) = Cardinality(Succeeded)
    /\ \E i \in Failed : promises[i] = Fulfilled(None)

\* C19: the returned entries are in the order of the platforms argument,
\* whatever the order the responses arrived in: the entries map to strictly
\* increasing positions of the platforms list.
C19_ResultInPlatformOrder ==
    pc = "resolved" =>
        \E f \in [1..Len(result) -> 1..N] :
           /\ \A k1, k2 \in 1..Len(result) : k1 < k2 => f[k1] < f[k2]
           /\ \A k \in 1..Len(result) :
                 /\ result[k].platform = platforms[f[k]]
                 /\ ~IsPlaceholder(result[k]) => result[k].url = UpstreamUrl(f[k])

\* two creatives returned in platform order although the later platform
\* answered first
C19_Witness ==
    /\ pc = "resolved"
    /\ Len(result) >= 2
    /\ ~IsPlaceholder(result[1])
    /\ Len(arrived) >= 2
    /\ arrived[1].ok /\ arrived[2].ok
    /\ arrived[1].index > arrived[2].index
    /\ platforms[arrived[1].index] # platforms[arrived[2].index]

\* C12: the placeholder data is deterministic: a second call with the same
\* strategy, user and platforms that falls back returns the list the first
\* fallback returned, whatever made either call fall back and in whatever
\* order the requests ended.
C12_FallbackIsDeterministic ==
    (firstResult # None /\ pc = "resolved" /\ fellBack) =>
        result = firstResult[1]

\* the second call fell back after every request had failed
C12_Witness ==
    /\ firstResult # None
    /\ pc = "resolved"
    /\ OPENAI_API_KEY
    /\ N >= 2
    /\ platforms[1] # platforms[2]
    /\ Failed = 1..N
    /\ arrived[1].index = N
    /\ result = firstResult[1]

\* the response is one 200 response carrying the three CORS headers
OneCorsResponse(res) ==
    /\ res.heads = <<200>>
    /\ Len(res.bodies) = 1
    /\ {"Access-Control-Allow-Origin", "Access-Control-Allow-Methods",
        "Access-Control-Allow-Headers"} \subseteq DOMAIN res.headers
    /\ res.headers["Access-Control-Allow-Origin"] = "*"

\* the response is the JSON greeting for /api/hello, a text otherwise
RoutedBody(req, res) ==
    IF req.url = "/api/hello"
    THEN /\ res.bodies = <<Some(Greeting)>>
         /\ "Content-Type" \in DOMAIN res.headers
         /\ res.headers["Content-Type"] = "application/json"
    ELSE /\ res.bodies = <<Some(RunningText)>>
         /\ "Content-Type" \in DOMAIN res.headers
         /\ res.headers["Content-Type"] = "text/plain"

\* C14 as stated: every request, whatever its method, gets one 200 response
\* with the CORS headers, the JSON greeting for /api/hello and a text for
\* any other URL.
C14_EveryRequestRouted ==
    \A k \in 1..Len(exchanges) :
        /\ OneCorsResponse(exchanges[k].res)
        /\ RoutedBody(exchanges[k].req, exchanges[k].res)

\* C14, amended: every request gets exactly one 200 response with the CORS
\* headers; a request of a method other than OPTIONS gets the JSON greeting
\* for /api/hello and the text for any other URL, and an OPTIONS request
\* gets an empty response whatever its URL.
C14_NonPreflightRouted ==
    \A k \in 1..Len(exchanges) :
        /\ OneCorsResponse(exchanges[k].res)
        /\ exchanges[k].req.method # "OPTIONS" =>
              RoutedBody(exchanges[k].req, exchanges[k].res)
        /\ exchanges[k].req.method = "OPTIONS" =>
              /\ exchanges[k].res.bodies = <<None>>
              /\ "Content-Type" \notin DOMAIN exchanges[k].res.headers

\* a preflight request, a greeting and a text response have been served
C14_Witness ==
    /\ Len(exchanges) = 2
    /\ exchanges[1].req = [method |-> "OPTIONS", url |-> "/api/hello"]
    /\ exchanges[1].res.bodies = <<None>>
    /\ exchanges[2].req = [method |-> "POST", url |-> "/api/hello"]
    /\ exchanges[2].res.bodies = <<Some(Greeting)>>

\* the table holds at most one row per email
OneRowPerEmail ==
    \A r1, r2 \in usersTable : r1.email = r2.email => r1 = r2

\* every row stays in the table with its id, email and created_at
RowsKeepIdentity ==
    \A r \in usersTable :
        \E r2 \in usersTable' :
            r2.id = r.id /\ r2.email = r.email /\ r2.created_at = r.created_at

\* a saveUser that resolves with a record resolves with what it was given,
\* and an UPDATE adds no row
SaveReturnsGiven(c) ==
    (calls[c].pc = "write" /\ calls'[c].pc = "done"
        /\ calls'[c].ret.value # None) =>
        /\ calls'[c].ret.value[1].email = calls[c].email
        /\ calls'[c].ret.value[1].companyName = calls[c].data[1].companyName
        /\ calls'[c].ret.value[1].companyUrl = calls[c].data[1].companyUrl
        /\ calls[c].wrote = "update" =>
              Cardinality(usersTable') = Cardinality(usersTable)

\* a getUserByEmail whose SELECT ran returns the profile saved last
GetReturnsLastSaved(c) ==
    (calls[c].op = "get" /\ calls[c].pc = "lookup" /\ calls'[c].pc = "done"
        /\ ~calls'[c].failed /\ lastSaved[calls[c].email] # None) =>
        /\ calls'[c].ret.value # None
        /\ calls'[c].ret.value[1].email = calls[c].email
        /\ calls'[c].ret.value[1].companyName =
               lastSaved[calls[c].email][1].companyName
        /\ calls'[c].ret.value[1].companyUrl =
               lastSaved[calls[c].email][1].companyUrl

\* C13: saveUser is an upsert keyed by email: the table never holds two rows
\* with one email, getUserByEmail(e) returns the company name and URL of the
\* last saveUser for e that returned a record, and no write changes the id
\* or created_at of a row.
C13_UpsertByEmail ==
    /\ []OneRowPerEmail
    /\ [][/\ RowsKeepIdentity
          /\ \A c \in Callers : SaveReturnsGiven(c) /\ GetReturnsLastSaved(c)]_vars

\* a profile was inserted, then updated, then read back
C13_Witness ==
    \E c1, c2 \in Callers :
        /\ calls[c1].op = "save" /\ calls[c1].pc = "done"
        /\ calls[c1].wrote = "update"
        /\ calls[c1].ret.value # None
        /\ calls[c1].ret.value[1].id = 1
        /\ calls[c2].op = "get" /\ calls[c2].pc = "done"
        /\ calls[c2].email = calls[c1].email
        /\ calls[c2].ret.value = calls[c1].ret.value
        /\ lastSaved[calls[c1].email] =
               Some([companyName |-> calls[c1].data[1].companyName,
                     companyUrl |-> calls[c1].data[1].companyUrl])

\* C17: saveUser sends an UPDATE only when a row with the email exists and
\* an INSERT only when none exists, also when the lookup query failed.
C17_WriteMatchesExistence ==
    \A c \in Callers :
        (calls[c].op = "save" /\ calls[c].pc \in {"write", "done"}) =>
            /\ calls[c].wrote = "update" => calls[c].rowAtIssue
            /\ calls[c].wrote = "insert" => ~calls[c].rowAtIssue

\* C18: saveUser and getUserByEmail never reject, and resolve to null when
\* the connection string is missing or any of their SQL statements failed.
C18_FailuresResolveToNull ==
    \A c \in Callers :
        calls[c].pc = "done" =>
            /\ ~calls[c].ret.threw
            /\ (~connectionString \/ calls[c].failed) =>
                   calls[c].ret.value = None

\* C20: with a connection string, a database that fails no statement it can
\* run and the table in place when the call starts, every saveUser returns
\* a record, also when two calls for one unknown email interleave.
C20_SaveReturnsRecord ==
    \A c \in Callers :
        (calls[c].op = "save" /\ calls[c].pc = "done" /\ connectionString
            /\ reliable /\ calls[c].tableAtCall) =>
            calls[c].ret.value # None

\* the operations whose service call has not settled
InFlight == {o \in Operations : ops[o].pc = "inflight"}

\* C21: loading is true exactly while at least one operation of the hook is
\* in flight, also when operations overlap.
C21_LoadingWhileInFlight == loading = (InFlight # {})

\* the operation o resumes in this step
Settles(o) == ops[o].pc = "inflight" /\ ops'[o].pc = "done"

C23_TableCreatedBeforeUse ==
    \A c \in Callers :
        calls[c].pc \in {"lookup", "write"} => dbInit # "pending"

====
